---- MODULE Spec2Model ----
(***************************************************************************)
(* ShutdownAt: a Tk application that powers the machine down (shutdown or  *)
(* hibernate) at a clock time typed by the user as "HH.MM".                *)
(* Model of src/40_SRC/shutdown_at.py (class ShutdownApp) and main.py.     *)
(*                                                                         *)
(* Python strings are modelled as sequences of one-character strings, so   *)
(* that split, isdigit, int, the f-string formatting and the string        *)
(* comparison of check_time are computed as the interpreter computes them. *)
(***************************************************************************)
EXTENDS Integers, Sequences, FiniteSets, TLC

VARIABLES
    now,               \* wall clock, minutes since midnight (time.strftime)
    elapsed,           \* minutes the clock advanced since the program started
    alive,             \* the Tk main loop is running
    entry,             \* text of self.time_entry
    entry_state,       \* state of self.time_entry: "normal" / "disabled"
    button_state,      \* state of self.start_button: "normal" / "disabled"
    shutdown_option,   \* self.shutdown_option (TRUE: shutdown, FALSE: hibernate)
    shutdown_time,     \* self.shutdown_time
    warning_shown,     \* self.warning_shown
    pendingTicks,      \* number of pending root.after(1000, check_time) callbacks
    dialog,            \* modal dialog a handler is blocked in: "none" / "warning" / "error"
    raised,            \* exception that left the last callback: "none" / its name
    powerCalls,        \* number of calls of shutdown() so far
    warnings,          \* number of calls of mb.showwarning so far
    withdrawn,         \* the root window is hidden (root.withdraw())
    armed_at,          \* clock when start_shutdown started check_time, -1 before
    lastTick,          \* the last execution of check_time
    last,              \* the last execution of shutdown()
    fn_op,             \* pure-function harness: function applied
    fn_arg,            \* pure-function harness: argument
    fn_res             \* pure-function harness: result

vars == <<now, elapsed, alive, entry, entry_state, button_state, shutdown_option,
          shutdown_time, warning_shown, pendingTicks, dialog, raised, powerCalls,
          warnings, withdrawn, armed_at, lastTick, last, fn_op, fn_arg, fn_res>>

appVars == <<now, elapsed, alive, entry, entry_state, button_state, shutdown_option,
             shutdown_time, warning_shown, pendingTicks, dialog, raised, powerCalls,
             warnings, withdrawn, armed_at, lastTick, last>>

fnVars == <<fn_op, fn_arg, fn_res>>

(***************************************************************************)
(* Bounds                                                                  *)
(***************************************************************************)
\* longest string given to the pure functions
MaxLen == 5

\* minutes the clock may advance during one run
MaxElapsed == 4

\* calls of shutdown() followed during one run
MaxPowerCalls == 2

\* minutes of one day
DayMinutes == 24 * 60

\* main.py: ShutdownApp(80)
DefaultDelay == 80

(***************************************************************************)
(* Characters and Python string primitives                                 *)
(***************************************************************************)
DecimalChars == {"0", "1", "2", "3", "4", "5", "6", "7", "8", "9"}

\* code point of a character (ord)
Ord(c) ==
    CASE c = "-" -> 45
      [] c = "." -> 46
      [] c = "0" -> 48
      [] c = "1" -> 49
      [] c = "2" -> 50
      [] c = "3" -> 51
      [] c = "4" -> 52
      [] c = "5" -> 53
      [] c = "6" -> 54
      [] c = "7" -> 55
      [] c = "8" -> 56
      [] c = "9" -> 57
      [] c = "s2" -> 178

\* "s2" stands for U+00B2 SUPERSCRIPT TWO: a digit for str.isdigit (Numeric_Type
\* Digit), not a decimal digit for int()
IsDigitChar(c) == c \in DecimalChars \cup {"s2"}

\* str.isdigit(): non-empty and every character is a digit
isdigit(s) == Len(s) > 0 /\ \A i \in 1..Len(s) : IsDigitChar(s[i])

\* int(s) raises ValueError unless every character is a decimal digit
IntRaises(s) == Len(s) = 0 \/ \E i \in 1..Len(s) : s[i] \notin DecimalChars

RECURSIVE int(_)
int(s) ==
    IF Len(s) = 0 THEN 0
    ELSE 10 * int(SubSeq(s, 1, Len(s) - 1)) + (Ord(s[Len(s)]) - 48)

\* s.split("."): the parts between the dots, always at least one part
RECURSIVE split(_)
split(s) ==
    IF \A i \in 1..Len(s) : s[i] # "." THEN <<s>>
    ELSE LET k == CHOOSE i \in 1..Len(s) :
                      s[i] = "." /\ \A j \in 1..(i - 1) : s[j] # "."
         IN  <<SubSeq(s, 1, k - 1)>> \o split(SubSeq(s, k + 1, Len(s)))

DigitOf(d) == CHOOSE c \in DecimalChars : Ord(c) = 48 + d

\* str(n) for n >= 0
RECURSIVE Dec(_)
Dec(n) == IF n < 10 THEN <<DigitOf(n)>> ELSE Dec(n \div 10) \o <<DigitOf(n % 10)>>

\* f"{n:02d}" for n >= 0
Fmt02(n) == IF n < 10 THEN <<"0">> \o Dec(n) ELSE Dec(n)

\* a < b for Python strings: by code point, a proper prefix is smaller
RECURSIVE StrLess(_, _)
StrLess(a, b) ==
    IF Len(b) = 0 THEN FALSE
    ELSE IF Len(a) = 0 THEN TRUE
    ELSE IF Ord(a[1]) # Ord(b[1]) THEN Ord(a[1]) < Ord(b[1])
    ELSE StrLess(Tail(a), Tail(b))

\* a >= b for Python strings
StrGE(a, b) == ~StrLess(a, b)

\* time.strftime("%H.%M") when the clock shows minute t of the day
strftime(t) == Fmt02(t \div 60) \o <<".">> \o Fmt02(t % 60)

(***************************************************************************)
(* ShutdownApp.is_valid_time                                               *)
(***************************************************************************)
\* the range check of line 215 forgotten
is_valid_time_NoRangeCheck(i_time) ==
    LET l_time_parts == split(i_time) IN
    IF Len(l_time_parts) # 2 \/ ~(isdigit(l_time_parts[1]) /\ isdigit(l_time_parts[2]))
    THEN "False"
    ELSE IF IntRaises(l_time_parts[1]) \/ IntRaises(l_time_parts[2])
    THEN "ValueError"
    ELSE "True"

is_valid_time(i_time) ==
    LET l_time_parts == split(i_time) IN
    IF Len(l_time_parts) # 2 \/ ~(isdigit(l_time_parts[1]) /\ isdigit(l_time_parts[2]))
    THEN "False"
    ELSE IF IntRaises(l_time_parts[1]) \/ IntRaises(l_time_parts[2])
    THEN "ValueError"
    ELSE LET l_hour == int(l_time_parts[1])
             l_minute == int(l_time_parts[2])
         IN  IF 0 <= l_hour /\ l_hour <= 23 /\ 0 <= l_minute /\ l_minute <= 59
             THEN "True" ELSE "False"

(***************************************************************************)
(* ShutdownApp.get_two_minutes_before                                      *)
(***************************************************************************)
AdjustHour_WrapToZero(l_hour) == IF l_hour < 0 THEN 0 ELSE l_hour

AdjustHour(l_hour) == IF l_hour < 0 THEN 23 ELSE l_hour

get_two_minutes_before(i_time) ==
    LET l_time_parts == split(i_time)
        l_hour0 == int(l_time_parts[1])
        l_minute0 == int(l_time_parts[2]) - 2
        l_minute == IF l_minute0 < 0 THEN l_minute0 + 60 ELSE l_minute0
        l_hour1 == IF l_minute0 < 0 THEN l_hour0 - 1 ELSE l_hour0
        l_hour == AdjustHour(l_hour1)
    IN  Fmt02(l_hour) \o <<".">> \o Fmt02(l_minute)

(***************************************************************************)
(* datetime.strptime(s, "%H.%M") as called by timer_countdown: the regular *)
(* expression (2[0-3]|[0-1]\d|\d)\.([0-5]\d|\d) must match the whole of s  *)
(***************************************************************************)
MatchesH(p) ==
    \/ Len(p) = 2 /\ p[1] = "2" /\ p[2] \in {"0", "1", "2", "3"}
    \/ Len(p) = 2 /\ p[1] \in {"0", "1"} /\ p[2] \in DecimalChars
    \/ Len(p) = 1 /\ p[1] \in DecimalChars

MatchesM(p) ==
    \/ Len(p) = 2 /\ p[1] \in {"0", "1", "2", "3", "4", "5"} /\ p[2] \in DecimalChars
    \/ Len(p) = 1 /\ p[1] \in DecimalChars

strptime_ok(s) ==
    LET parts == split(s)
    IN  Len(parts) = 2 /\ MatchesH(parts[1]) /\ MatchesM(parts[2])

(***************************************************************************)
(* ShutdownApp.shutdown: the commands one execution runs, given the mode   *)
(* and what the environment answers (does the script exist, exit status of *)
(* the script, exit status of the shutdown command)                        *)
(***************************************************************************)
NoAction ==
    [ran |-> FALSE, option |-> TRUE, exists |-> FALSE, primary_rc |-> "ok",
     fallback_rc |-> "ok", primaryCalls |-> 0, fallbackCalls |-> 0,
     hibernateCalls |-> 0, raised |-> FALSE]

\* the fallback of the missing script forgotten
shutdown_NoFallbackWhenMissing(option, exists, primary_rc, fallback_rc) ==
    LET env == [ran |-> TRUE, option |-> option, exists |-> exists,
                primary_rc |-> primary_rc, fallback_rc |-> fallback_rc]
    IN
    IF option THEN
        IF exists THEN
            IF primary_rc = "ok"
            THEN env @@ [primaryCalls |-> 1, fallbackCalls |-> 0,
                         hibernateCalls |-> 0, raised |-> FALSE]
            ELSE env @@ [primaryCalls |-> 1, fallbackCalls |-> 1,
                         hibernateCalls |-> 0, raised |-> (fallback_rc # "ok")]
        ELSE env @@ [primaryCalls |-> 0, fallbackCalls |-> 0,
                     hibernateCalls |-> 0, raised |-> FALSE]
    ELSE env @@ [primaryCalls |-> 0, fallbackCalls |-> 0,
                 hibernateCalls |-> 1, raised |-> FALSE]

\* the hibernate branch running the shutdown command (line 552 for line 553)
shutdown_HibernateRunsShutdown(option, exists, primary_rc, fallback_rc) ==
    LET env == [ran |-> TRUE, option |-> option, exists |-> exists,
                primary_rc |-> primary_rc, fallback_rc |-> fallback_rc]
    IN
    IF option THEN
        IF exists THEN
            IF primary_rc = "ok"
            THEN env @@ [primaryCalls |-> 1, fallbackCalls |-> 0,
                         hibernateCalls |-> 0, raised |-> FALSE]
            ELSE env @@ [primaryCalls |-> 1, fallbackCalls |-> 1,
                         hibernateCalls |-> 0, raised |-> (fallback_rc # "ok")]
        ELSE env @@ [primaryCalls |-> 0, fallbackCalls |-> 1,
                     hibernateCalls |-> 0, raised |-> (fallback_rc # "ok")]
    ELSE env @@ [primaryCalls |-> 0, fallbackCalls |-> 1,
                 hibernateCalls |-> 0, raised |-> (fallback_rc # "ok")]

shutdown(option, exists, primary_rc, fallback_rc) ==
    LET env == [ran |-> TRUE, option |-> option, exists |-> exists,
                primary_rc |-> primary_rc, fallback_rc |-> fallback_rc]
    IN
    IF option THEN
        IF exists THEN
            IF primary_rc = "ok"
            THEN env @@ [primaryCalls |-> 1, fallbackCalls |-> 0,
                         hibernateCalls |-> 0, raised |-> FALSE]
            ELSE env @@ [primaryCalls |-> 1, fallbackCalls |-> 1,
                         hibernateCalls |-> 0, raised |-> (fallback_rc # "ok")]
        ELSE env @@ [primaryCalls |-> 0, fallbackCalls |-> 1,
                     hibernateCalls |-> 0, raised |-> (fallback_rc # "ok")]
    ELSE env @@ [primaryCalls |-> 0, fallbackCalls |-> 0,
                 hibernateCalls |-> 1, raised |-> FALSE]

(***************************************************************************)
(* Inputs of the model                                                     *)
(***************************************************************************)
HM(h, m) == 60 * h + m

\* clock times at which the program is started
StartTimes == {HM(9, 2), HM(9, 57), HM(23, 57)}

\* texts the user types into the entry
Inputs ==
    { <<"1", "0", ".", "0", "0">>,
      <<"9", ".", "5">>,
      <<"0", "9", ".", "0", "5">>,
      <<"0", "9", ".", "5">>,
      <<"0", "0", ".", "0", "0">>,
      <<"0", "0", ".", "0", "1">>,
      <<"2", "3", ".", "5", "9">>,
      <<"0", "0", "9", ".", "0", "5">>,
      <<"2", "4", ".", "0", "0">>,
      <<"0", "9", "-", "0", "5">>,
      <<"s2", "3", ".", "0", "0">>,
      <<>> }

NoTick == [time |-> -1, warned |-> FALSE, did |-> "none"]

(***************************************************************************)
(* ShutdownApp.__init__                                                    *)
(***************************************************************************)
InitApp ==
    /\ now \in StartTimes
    /\ elapsed = 0
    /\ alive = TRUE
    /\ entry = strftime((now + DefaultDelay) % DayMinutes)
    /\ entry_state = "normal"
    /\ button_state = "normal"
    /\ shutdown_option = TRUE
    /\ shutdown_time = <<>>
    /\ warning_shown = FALSE
    /\ pendingTicks = 0
    /\ dialog = "none"
    /\ raised = "none"
    /\ powerCalls = 0
    /\ warnings = 0
    /\ withdrawn = FALSE
    /\ armed_at = -1
    /\ lastTick = NoTick
    /\ last = NoAction

InitFnIdle ==
    /\ fn_op = "none"
    /\ fn_arg = <<>>
    /\ fn_res = <<>>

Init == InitApp /\ InitFnIdle

(***************************************************************************)
(* ShutdownApp.check_time, run with `pend` other callbacks still pending;  *)
(* target is self.shutdown_time                                            *)
(***************************************************************************)
CheckTime(target, pend) ==
    LET l_current_time == strftime(now) IN
    IF StrGE(l_current_time, target) THEN
        /\ powerCalls < MaxPowerCalls
        /\ \E exists \in BOOLEAN, primary_rc \in {"ok", "fail"}, fallback_rc \in {"ok", "fail"} :
             LET r == shutdown(shutdown_option, exists, primary_rc, fallback_rc) IN
             /\ last' = r
             /\ raised' = IF r.raised THEN "CalledProcessError" ELSE "none"
             /\ pendingTicks' = IF r.raised THEN pend ELSE pend + 1
        /\ powerCalls' = powerCalls + 1
        /\ lastTick' = [time |-> now, warned |-> warning_shown, did |-> "shutdown"]
        /\ UNCHANGED <<warning_shown, dialog, warnings>>
    ELSE IF l_current_time = get_two_minutes_before(target) /\ ~warning_shown THEN
        \* mb.showwarning is modal: check_time waits in it for the user
        /\ dialog' = "warning"
        /\ warnings' = warnings + 1
        /\ lastTick' = [time |-> now, warned |-> warning_shown, did |-> "warning"]
        /\ pendingTicks' = pend
        /\ raised' = "none"
        /\ UNCHANGED <<warning_shown, powerCalls, last>>
    ELSE
        /\ lastTick' = [time |-> now, warned |-> warning_shown, did |-> "none"]
        /\ pendingTicks' = pend + 1
        /\ raised' = "none"
        /\ UNCHANGED <<warning_shown, dialog, warnings, powerCalls, last>>

\* line 479 forgotten: the flag is not set when check_time resumes
AckWarning_FlagNotSet ==
    /\ alive
    /\ dialog = "warning"
    /\ dialog' = "none"
    /\ pendingTicks' = pendingTicks + 1
    /\ UNCHANGED <<now, elapsed, alive, entry, entry_state, button_state,
                   shutdown_option, shutdown_time, raised, powerCalls, warnings,
                   withdrawn, armed_at, lastTick, last, warning_shown>>
    /\ UNCHANGED fnVars

\* the user closes the warning: check_time resumes after mb.showwarning
AckWarning ==
    /\ alive
    /\ dialog = "warning"
    /\ dialog' = "none"
    /\ warning_shown' = TRUE
    /\ pendingTicks' = pendingTicks + 1
    /\ UNCHANGED <<now, elapsed, alive, entry, entry_state, button_state,
                   shutdown_option, shutdown_time, raised, powerCalls, warnings,
                   withdrawn, armed_at, lastTick, last>>
    /\ UNCHANGED fnVars

\* the Tk main loop runs a pending root.after(1000, self.check_time) callback
Tick ==
    /\ alive
    /\ dialog = "none"
    /\ pendingTicks > 0
    /\ CheckTime(shutdown_time, pendingTicks - 1)
    /\ UNCHANGED <<now, elapsed, alive, entry, entry_state, button_state,
                   shutdown_option, shutdown_time, withdrawn, armed_at>>
    /\ UNCHANGED fnVars

(***************************************************************************)
(* ShutdownApp.start_shutdown: the OK button                               *)
(***************************************************************************)
\* line 243 forgotten: the OK button stays enabled
DisableControls_ButtonLeftEnabled ==
    /\ entry_state' = "disabled"
    /\ button_state' = button_state

\* start_shutdown disables the entry and the OK button
DisableControls ==
    /\ entry_state' = "disabled"
    /\ button_state' = "disabled"

StartShutdown ==
    /\ alive
    /\ ~withdrawn
    /\ dialog = "none"
    /\ button_state = "normal"
    /\ LET l_user_input == entry
           valid == is_valid_time(l_user_input)
       IN
       IF valid = "ValueError" THEN
           \* int() raised inside is_valid_time
           /\ raised' = "ValueError"
           /\ UNCHANGED <<shutdown_time, entry_state, button_state, withdrawn, armed_at,
                          warning_shown, pendingTicks, dialog, powerCalls,
                          warnings, lastTick, last>>
       ELSE IF valid = "False" THEN
           \* mb.showerror is modal: start_shutdown waits in it for the user
           /\ raised' = "none"
           /\ dialog' = "error"
           /\ UNCHANGED <<shutdown_time, entry_state, button_state, withdrawn, armed_at,
                          warning_shown, pendingTicks, powerCalls,
                          warnings, lastTick, last>>
       ELSE
           /\ shutdown_time' = l_user_input
           /\ DisableControls
           /\ IF ~strptime_ok(l_user_input) THEN
                  \* create_timer_window -> timer_countdown: strptime raised
                  /\ raised' = "ValueError"
                  /\ UNCHANGED <<withdrawn, armed_at, warning_shown, pendingTicks, dialog,
                                 powerCalls, warnings, lastTick, last>>
              ELSE
                  /\ withdrawn' = TRUE
                  /\ armed_at' = now
                  /\ CheckTime(l_user_input, pendingTicks)
    /\ UNCHANGED <<now, elapsed, alive, entry, shutdown_option>>
    /\ UNCHANGED fnVars

\* the user closes the error message: start_shutdown returns
AckError ==
    /\ alive
    /\ dialog = "error"
    /\ dialog' = "none"
    /\ UNCHANGED <<now, elapsed, alive, entry, entry_state, button_state,
                   shutdown_option, shutdown_time, warning_shown, pendingTicks,
                   raised, powerCalls, warnings, withdrawn, armed_at, lastTick, last>>
    /\ UNCHANGED fnVars

\* the user edits the entry
TypeEntry ==
    /\ alive
    /\ ~withdrawn
    /\ dialog = "none"
    /\ entry_state = "normal"
    /\ \E s \in Inputs : entry' = s
    /\ UNCHANGED <<now, elapsed, alive, entry_state, button_state, shutdown_option,
                   shutdown_time, warning_shown, pendingTicks, dialog, raised,
                   powerCalls, warnings, withdrawn, armed_at, lastTick, last>>
    /\ UNCHANGED fnVars

\* the user clicks the checkbox
ToggleOption ==
    /\ alive
    /\ ~withdrawn
    /\ dialog = "none"
    /\ shutdown_option' = ~shutdown_option
    /\ UNCHANGED <<now, elapsed, alive, entry, entry_state, button_state,
                   shutdown_time, warning_shown, pendingTicks, dialog, raised,
                   powerCalls, warnings, withdrawn, armed_at, lastTick, last>>
    /\ UNCHANGED fnVars

\* the Cancel button: root.destroy ends the main loop and its callbacks
Cancel ==
    /\ alive
    /\ ~withdrawn
    /\ dialog = "none"
    /\ alive' = FALSE
    /\ pendingTicks' = 0
    /\ UNCHANGED <<now, elapsed, entry, entry_state, button_state, shutdown_option,
                   shutdown_time, warning_shown, dialog, raised, powerCalls,
                   warnings, withdrawn, armed_at, lastTick, last>>
    /\ UNCHANGED fnVars

\* the wall clock reaches the next minute
ClockAdvance ==
    /\ alive
    /\ elapsed < MaxElapsed
    /\ now' = (now + 1) % DayMinutes
    /\ elapsed' = elapsed + 1
    /\ UNCHANGED <<alive, entry, entry_state, button_state, shutdown_option,
                   shutdown_time, warning_shown, pendingTicks, dialog, raised,
                   powerCalls, warnings, withdrawn, armed_at, lastTick, last>>
    /\ UNCHANGED fnVars

Next ==
    \/ StartShutdown
    \/ Tick
    \/ AckWarning
    \/ AckError
    \/ TypeEntry
    \/ ToggleOption
    \/ Cancel
    \/ ClockAdvance

Spec == Init /\ [][Next]_vars

(***************************************************************************)
(* The pure functions applied to every short string                        *)
(***************************************************************************)
Alphabet == {"0", "1", "2", "6", ".", "-", "s2"}

\* the texts of n characters
StringsOfLen(n) == [1..n -> Alphabet]

Strings == (UNION {StringsOfLen(n) : n \in 0..MaxLen}) \cup Inputs

InitFn ==
    /\ fn_op = "none"
    /\ fn_arg \in Strings
    /\ fn_res = <<>>
    /\ now = HM(9, 57)
    /\ InitApp

CallIsValidTime ==
    /\ fn_op' = "is_valid_time"
    /\ fn_res' = is_valid_time(fn_arg)
    /\ UNCHANGED fn_arg
    /\ UNCHANGED appVars

\* get_two_minutes_before is only called on self.shutdown_time, a validated text
CallGetTwoMinutesBefore ==
    /\ is_valid_time(fn_arg) = "True"
    /\ fn_op' = "get_two_minutes_before"
    /\ fn_res' = get_two_minutes_before(fn_arg)
    /\ UNCHANGED fn_arg
    /\ UNCHANGED appVars

NextFn ==
    \/ CallIsValidTime
    \/ CallGetTwoMinutesBefore

SpecFn == InitFn /\ [][NextFn]_vars

(***************************************************************************)
(* Properties                                                              *)
(***************************************************************************)
\* the time of day a text HH.MM denotes, in minutes
MinutesOf(s) == 60 * int(split(s)[1]) + int(split(s)[2])

AllDecimal(s) == Len(s) > 0 /\ \A i \in 1..Len(s) : s[i] \in DecimalChars

\* s is digits, one dot, digits, with the values in 0..23 and 0..59
WellFormed(s) ==
    \E k \in 1..Len(s) :
        /\ s[k] = "."
        /\ AllDecimal(SubSeq(s, 1, k - 1))
        /\ AllDecimal(SubSeq(s, k + 1, Len(s)))
        /\ int(SubSeq(s, 1, k - 1)) \in 0..23
        /\ int(SubSeq(s, k + 1, Len(s))) \in 0..59

\* check_time has run at least once
Ticked == lastTick # NoTick

\* C1: once shutdown() was called, no tick is pending any more and shutdown()
\* is called at most once for the armed schedule.
C1_FiredIsTerminal ==
    /\ powerCalls <= 1
    /\ (powerCalls >= 1 => pendingTicks = 0)

\* C2: for every accepted target, a tick calls shutdown() if and only if the
\* clock's time of day is at or after the target's time of day.
C2_FiresIffReached ==
    Ticked =>
        ((lastTick.did = "shutdown") <=> (lastTick.time >= MinutesOf(shutdown_time)))

\* C3: armed before T - 2 minutes with the clock running up to T: one warning,
\* at the tick of T - 2; shutdown() is called at the tick of T and at no tick
\* before it.
C3_WarnOnceThenFire ==
    LET T == MinutesOf(shutdown_time) IN
    (withdrawn /\ T >= 2 /\ armed_at < T - 2 /\ armed_at <= now /\ now <= T) =>
        /\ warnings <= 1
        /\ (lastTick.did = "warning" => lastTick.time = T - 2)
        /\ (lastTick.time = T - 2 => warnings = 1)
        /\ (warnings = 1 /\ dialog = "none" => warning_shown)
        /\ (lastTick.did = "shutdown" => lastTick.time = T)
        /\ (powerCalls >= 1 => lastTick.did = "shutdown")
        /\ (lastTick.time = T => lastTick.did = "shutdown" /\ powerCalls >= 1)

\* C4: in shutdown mode one execution of shutdown() runs the shutdown command
\* once when the script is missing, once when the script exists and fails, and
\* not at all when the script succeeds; a missing script is never run.
C4_FallbackChain ==
    (last.ran /\ last.option) =>
        /\ (~last.exists => last.fallbackCalls = 1 /\ last.primaryCalls = 0)
        /\ (last.exists /\ last.primary_rc = "fail" =>
                last.fallbackCalls = 1 /\ last.primaryCalls = 1)
        /\ (last.exists /\ last.primary_rc = "ok" =>
                last.fallbackCalls = 0 /\ last.primaryCalls = 1)

C4_Witness ==
    /\ last.ran /\ last.option /\ last.exists
    /\ last.primary_rc = "fail"
    /\ last.fallbackCalls = 1

\* C5: is_valid_time returns True exactly for the well-formed texts and False,
\* without raising, for every other text.
C5_ValidatorIff ==
    (fn_op = "is_valid_time") =>
        fn_res = (IF WellFormed(fn_arg) THEN "True" ELSE "False")

\* C6: for a valid time t, get_two_minutes_before(t) is a well-formed time equal
\* to t minus 2 minutes modulo one day; 1438 more minutes back give t again;
\* 00.01 gives 23.59 and 00.00 gives 23.58.
C6_TwoMinutesBefore ==
    (fn_op = "get_two_minutes_before") =>
        /\ WellFormed(fn_res)
        /\ MinutesOf(fn_res) = (MinutesOf(fn_arg) - 2) % DayMinutes
        /\ (MinutesOf(fn_res) - (DayMinutes - 2)) % DayMinutes = MinutesOf(fn_arg)
        /\ (fn_arg = <<"0", "0", ".", "0", "1">> => fn_res = <<"2", "3", ".", "5", "9">>)
        /\ (fn_arg = <<"0", "0", ".", "0", "0">> => fn_res = <<"2", "3", ".", "5", "8">>)

C6_Witness ==
    /\ fn_op = "get_two_minutes_before"
    /\ fn_arg = <<"0", "0", ".", "0", "1">>
    /\ fn_res = <<"2", "3", ".", "5", "9">>

\* C7: no failure of a command run by shutdown() leaves shutdown() and
\* check_time as an uncaught error.
C7_NoUncaughtError ==
    /\ ~last.raised
    /\ raised # "CalledProcessError"

\* C8: for every valid target, a tick with the warning not yet shown and the
\* clock at the target minus 2 minutes (modulo one day) shows the warning.
C8_WarnsTwoMinutesBefore ==
    (Ticked /\ ~lastTick.warned
        /\ lastTick.time = (MinutesOf(shutdown_time) - 2) % DayMinutes) =>
        /\ lastTick.did = "warning"
        /\ (dialog = "warning" \/ warning_shown)

\* C9: the tick that shows the warning does not wait for the user: while the
\* warning is open the next tick is already scheduled.
C9_TickNeverBlocks ==
    (dialog = "warning") => (pendingTicks > 0)

\* C10: in hibernate mode one execution of shutdown() runs the hibernate command
\* once and neither the script nor the shutdown command; in shutdown mode the
\* hibernate command is not run.
C10_ModeFollowed ==
    /\ (last.ran /\ ~last.option) =>
           (last.hibernateCalls = 1 /\ last.primaryCalls = 0 /\ last.fallbackCalls = 0)
    /\ (last.ran /\ last.option) => (last.hibernateCalls = 0)
    /\ last.ran => (last.option = shutdown_option)

C10_Witness ==
    /\ last.ran /\ ~last.option
    /\ last.hibernateCalls = 1

\* C11: the warning flag, once true, stays true (so it changes from false to
\* true at most once), it is true only after a warning was emitted, the
\* schedule once armed stays armed, and at most one warning is ever emitted.
C11_WarningOnce ==
    /\ [](warnings <= 1)
    /\ [](warning_shown => warnings = 1)
    /\ [][(warning_shown => warning_shown')
          /\ (withdrawn => withdrawn')
          /\ (warnings' >= warnings)
          /\ (powerCalls' >= powerCalls)]_vars

\* a later tick inside the warning minute, after the warning was closed, was silent
C11_Witness ==
    /\ warning_shown
    /\ warnings = 1
    /\ lastTick.warned
    /\ lastTick.did = "none"
    /\ lastTick.time = (MinutesOf(shutdown_time) - 2) % DayMinutes

\* C12: confirming a text that is not a well-formed time leaves the stored
\* target, the warning flag, the state of the entry and of the OK button
\* unchanged and enabled, schedules no tick and calls no power action; and
\* whenever a tick is pending or running, the stored target is a text the
\* validator accepts.
C12_InvalidLeavesIdle ==
    /\ [][(StartShutdown /\ ~WellFormed(entry)) =>
            /\ UNCHANGED <<shutdown_time, warning_shown, entry_state, button_state,
                           pendingTicks, powerCalls, warnings, withdrawn, armed_at,
                           lastTick, last>>
            /\ entry_state' = "normal"
            /\ button_state' = "normal"
            /\ pendingTicks' = 0
            /\ powerCalls' = 0]_vars
    /\ []((pendingTicks > 0 \/ dialog = "warning" \/ Ticked) =>
            (WellFormed(shutdown_time) /\ is_valid_time(shutdown_time) = "True"))

\* "24.00" was confirmed: the error message is open and nothing is armed
C12_Witness ==
    /\ dialog = "error"
    /\ entry = <<"2", "4", ".", "0", "0">>
    /\ shutdown_time = <<>>
    /\ ~warning_shown
    /\ entry_state = "normal"
    /\ button_state = "normal"
    /\ pendingTicks = 0
    /\ powerCalls = 0

\* C13: after a valid confirmation the OK button (and the entry) is disabled;
\* at most one check_time callback is pending at any time; the stored target
\* and the arming, once set, never change.
C13_ArmedOnce ==
    /\ [](pendingTicks <= 1)
    /\ [](shutdown_time # <<>> => (button_state = "disabled" /\ entry_state = "disabled"))
    /\ [](withdrawn => (shutdown_time # <<>> /\ shutdown_time = entry))
    /\ [][/\ (shutdown_time # <<>> => shutdown_time' = shutdown_time)
          /\ (armed_at # -1 => armed_at' = armed_at)
          /\ (button_state = "disabled" => button_state' = "disabled")]_vars

\* armed, ticks have run since, and exactly one callback is pending
C13_Witness ==
    /\ withdrawn
    /\ button_state = "disabled"
    /\ pendingTicks = 1
    /\ Ticked
    /\ lastTick.time # armed_at
    /\ shutdown_time = entry

====
